---- MODULE Spec2Model ----
(***************************************************************************)
(* Excel_Duplicate_Deletion: the row-selection and deletion engine.        *)
(*                                                                         *)
(*   src/test1.py  the Streamlit application (search, deletion queue,      *)
(*                 rescue, clear, export)                                  *)
(*   src/test.py   the command-line flow (search, rescue, confirm, delete) *)
(*   src/main.py   the upload endpoint of the web API                      *)
(*                                                                         *)
(* Text is a sequence of one-character strings, a row is a sequence of     *)
(* cells (each a text), a table (DataFrame) is a sequence of rows whose    *)
(* position i+1 holds the row of pandas index i, and a workbook sheet is a *)
(* sequence of physical rows whose first row is the header.                *)
(* Every cell of the sheets considered holds text (no blank and no numeric  *)
(* cells), so every row has a cell object in every column.                 *)
(***************************************************************************)
EXTENDS Integers, Sequences, FiniteSets, TLC

VARIABLES
    program,          \* which program of the repository is running
    uploaded_file,    \* test1.py: value of the st.file_uploader widget
    search_text,      \* test1.py: value of the st.text_input widget
    session_state,    \* test1.py: st.session_state (df_original, deletion_queue, current_matches)
    page_ok,          \* test1.py: the last script run reached its end (no exception)
    rescue_box,       \* test1.py: value of the st.selectbox "rescue_box" (0: no value held)
    processed_data,   \* test1.py: result of process_excel_with_formatting in the last run
    last,             \* test1.py: the user interaction that caused the last script run
    q_pre_add,        \* test1.py: history, the queue as it was before the latest Add
    cli,              \* test.py: the locals of main() and its position
    disk,             \* test.py: the workbooks of the working directory, by path
    api,              \* main.py: TEMP_STORAGE, the requests in flight and the last response
    mt,               \* a call of get_rows_to_delete / get_rows_to_delete_logic
    rm                \* a call of the row remover, stepped through its loop

vars == <<program, uploaded_file, search_text, session_state, page_ok,
          rescue_box, processed_data, last, q_pre_add, cli, disk, api, mt, rm>>

(***************************************************************************)
(* Bounds                                                                  *)
(***************************************************************************)
\* rows of the tables the matchers are called on
MaxRows == 3

\* data rows of the largest sheet of distinct rows the row remover is called on
MaxSheetRows == 5

(***************************************************************************)
(* Text                                                                    *)
(***************************************************************************)
Range(s) == {s[i] : i \in 1..Len(s)}

UpperChars == <<"A","B","C","D","E","F","G","H","I","J","K","L","M",
                "N","O","P","Q","R","S","T","U","V","W","X","Y","Z">>

LowerChars == <<"a","b","c","d","e","f","g","h","i","j","k","l","m",
                "n","o","p","q","r","s","t","u","v","w","x","y","z">>

\* str.lower() on one character
LowerChar(c) ==
    IF \E i \in 1..26 : UpperChars[i] = c
    THEN LowerChars[CHOOSE i \in 1..26 : UpperChars[i] = c]
    ELSE c

\* str.lower()
Lower(s) == [i \in 1..Len(s) |-> LowerChar(s[i])]

\* Python's  sub in s  for strings: sub occurs in s as a contiguous block
InStr(sub, s) ==
    \E j \in 0..(Len(s) - Len(sub)) :
        \A k \in 1..Len(sub) : s[j + k] = sub[k]

TOTAL == <<"t","o","t","a","l">>

(***************************************************************************)
(* Regular expressions: pandas' Series.str.contains(pat, case=...) takes   *)
(* pat as a regular expression (regex=True is the default) and tests       *)
(* re.search.  The subset modelled: ordinary characters, '.', a postfix    *)
(* '*', and the patterns re.compile rejects because of '(' , '[' or a '*'  *)
(* with nothing to repeat.                                                 *)
(***************************************************************************)
\* re.compile(pat) raises re.error
RegexError(pat) ==
    \E i \in 1..Len(pat) :
        \/ pat[i] \in {"(", "["}
        \/ pat[i] = "*" /\ (i = 1 \/ pat[i - 1] = "*")

\* one pattern character against one subject character
CharMatch(pc, c, case) ==
    \/ pc = "."
    \/ IF case THEN pc = c ELSE LowerChar(pc) = LowerChar(c)

RECURSIVE MatchHere(_, _, _, _, _)
\* pat[i..] matches a prefix of s[j..]
MatchHere(pat, i, s, j, case) ==
    IF i > Len(pat) THEN TRUE
    ELSE IF i + 1 <= Len(pat) /\ pat[i + 1] = "*"
    THEN \E k \in 0..(Len(s) - j + 1) :
            /\ \A m \in 0..(k - 1) : CharMatch(pat[i], s[j + m], case)
            /\ MatchHere(pat, i + 2, s, j + k, case)
    ELSE /\ j <= Len(s)
         /\ CharMatch(pat[i], s[j], case)
         /\ MatchHere(pat, i + 1, s, j + 1, case)

\* re.search(pat, s) is not None, with re.IGNORECASE when case is False
RegexSearch(pat, s, case) ==
    \E j \in 1..(Len(s) + 1) : MatchHere(pat, 1, s, j, case)

(***************************************************************************)
(* Matcher                                                                 *)
(***************************************************************************)
\* df.astype(str).apply(lambda x: x.str.contains(term, case=case)).any(axis=1), one row
RowMask(row, search_term, case) ==
    \E c \in 1..Len(row) : RegexSearch(search_term, row[c], case)

RECURSIVE JoinCells(_)
\* the elements of a numpy object array as str() prints them: 'a' 'b' ...
JoinCells(row) ==
    IF Len(row) = 0 THEN <<>>
    ELSE IF Len(row) = 1 THEN <<"'">> \o row[1] \o <<"'">>
    ELSE <<"'">> \o row[1] \o <<"'", " ">> \o JoinCells(Tail(row))

\* str(next_row.values).lower()
RowContent(row) == Lower(<<"[">> \o JoinCells(row) \o <<"]">>)

\* faulty variant: the content is not lowered before the test
IsTotalRowNotLowered(row) == InStr(TOTAL, <<"[">> \o JoinCells(row) \o <<"]">>)

\* "total" in row_content
IsTotalRow(row) == InStr(TOTAL, RowContent(row))

RECURSIVE SortAsc(_)
\* sorted(list(S)) for a set of integers
SortAsc(S) ==
    IF S = {} THEN <<>>
    ELSE LET m == CHOOSE x \in S : \A y \in S : x <= y
         IN  <<m>> \o SortAsc(S \ {m})

\* df[mask].index.tolist(): the pandas indices (0-based) of the rows the mask selects
MatchedIndices(df, search_term, case) ==
    {i \in 0..(Len(df) - 1) : RowMask(df[i + 1], search_term, case)}

\* faulty variant: every row below a match is taken, whatever its content
TotalsBelowUnchecked(df, matched_indices) ==
    {idx + 1 : idx \in {i \in matched_indices : i + 1 < Len(df)}}

\* faulty variant: the row below the last row is taken without the length test
TotalsBelowPastEnd(df, matched_indices) ==
    {idx + 1 : idx \in {i \in matched_indices :
                            i + 1 >= Len(df) \/ IsTotalRow(df[i + 2])}}

\* the rows immediately below a match whose content contains "total"
TotalsBelow(df, matched_indices) ==
    {idx + 1 : idx \in {i \in matched_indices :
                            i + 1 < Len(df) /\ IsTotalRow(df[i + 2])}}

\* the body shared by both matchers: main matches, then the "Total" rows below them
FinalDeletionSet(df, search_term, case) ==
    LET matched_indices == MatchedIndices(df, search_term, case)
    IN  matched_indices \cup TotalsBelow(df, matched_indices)

\* a result of a matcher call: the returned list, or the exception re.error
Returned(list) == [ok |-> TRUE, value |-> list]
Raised == [ok |-> FALSE, value |-> <<>>]

\* test.py: get_rows_to_delete(df, search_term), case-insensitive, no guard on the term;
\* on a table without rows DataFrame.apply does not evaluate the pattern
get_rows_to_delete(df, search_term) ==
    IF Len(df) = 0 THEN Returned(<<>>)
    ELSE IF RegexError(search_term) THEN Raised
    ELSE Returned(SortAsc(FinalDeletionSet(df, search_term, FALSE)))

\* test1.py: get_rows_to_delete_logic(df, search_term), case-sensitive
get_rows_to_delete_logic(df, search_term) ==
    IF search_term = <<>> \/ Len(df) = 0 THEN Returned(<<>>)
    ELSE IF RegexError(search_term) THEN Raised
    ELSE Returned(SortAsc(FinalDeletionSet(df, search_term, TRUE)))

\* the matcher of the spec, findMatches(table, searchTerm, caseSensitive): the
\* case-sensitive matcher is test1.py's, the case-insensitive one is test.py's
findMatches(df, search_term, caseSensitive) ==
    IF caseSensitive THEN get_rows_to_delete_logic(df, search_term)
    ELSE get_rows_to_delete(df, search_term)

(***************************************************************************)
(* Index translation and the format-preserving row remover                 *)
(***************************************************************************)
\* pandas index (0-based) to Excel row (1-based, after the header row):  i + 2
ExcelRow(i) == i + 2

\* faulty variant: the header row is not counted on the way back
TableIndexOffByOne(r) == r - 1

\* Excel row back to pandas index:  r - 2
TableIndex(r) == r - 2

\* excel_rows_to_delete = [i + 2 for i in indices_to_delete]
ExcelRows(indices_to_delete) ==
    [k \in 1..Len(indices_to_delete) |-> ExcelRow(indices_to_delete[k])]

RECURSIVE InsertDesc(_, _)
InsertDesc(x, sorted) ==
    IF sorted = <<>> THEN <<x>>
    ELSE IF x >= Head(sorted) THEN <<x>> \o sorted
    ELSE <<Head(sorted)>> \o InsertDesc(x, Tail(sorted))

\* faulty variant: the list is left in the order it came in
SortDescLeftOut(list) == list

RECURSIVE SortDesc(_)
\* excel_rows_to_delete.sort(reverse=True)
SortDesc(list) ==
    IF list = <<>> THEN <<>>
    ELSE InsertDesc(Head(list), SortDesc(Tail(list)))

\* ws.delete_rows(r): the cells of physical row r are dropped and the rows below
\* move up by one; a row number past the sheet's last row leaves the sheet as it is
delete_rows(ws, r) ==
    IF r \in 1..Len(ws)
    THEN [k \in 1..(Len(ws) - 1) |-> IF k < r THEN ws[k] ELSE ws[k + 1]]
    ELSE ws

RECURSIVE DeleteLoop(_, _)
\* for r in excel_rows_to_delete: ws.delete_rows(r)
DeleteLoop(ws, excel_rows_to_delete) ==
    IF excel_rows_to_delete = <<>> THEN ws
    ELSE DeleteLoop(delete_rows(ws, Head(excel_rows_to_delete)),
                    Tail(excel_rows_to_delete))

\* faulty variant: the rows are deleted top-down: the sort is left out
DeletionOrderUnsorted(indices_to_delete) == ExcelRows(indices_to_delete)

\* the order in which the rows are deleted
DeletionOrder(indices_to_delete) == SortDesc(ExcelRows(indices_to_delete))

\* test1.py: process_excel_with_formatting(uploaded_file, indices_to_delete),
\* the sheet of the workbook that is saved
process_excel_with_formatting(sheet, indices_to_delete) ==
    DeleteLoop(sheet, DeletionOrder(indices_to_delete))

\* test.py: delete_rows_preserve_formatting(file_path, indices_to_delete),
\* the sheet saved as cleaned_formatted_output.xlsx
delete_rows_preserve_formatting(sheet, indices_to_delete) ==
    DeleteLoop(sheet, DeletionOrder(indices_to_delete))

\* pd.read_excel: the first physical row is the header, the rest are the data rows
read_excel(sheet) == Tail(sheet)

(***************************************************************************)
(* Cell texts, rows and workbooks used as inputs                           *)
(***************************************************************************)
RowA == << <<"I","N","V","-","2","0","2","3">>, <<"o","k">> >>
RowB == << <<"i","n","v","-","7">>, <<"T","o","t","a","l">> >>
RowC == << <<"S","u","b"," ","T","O","T","A","L">>, <<"x">> >>
RowD == << <<"B","e","t","a"," ","T","o","t","a","l">>, <<"y">> >>
RowE == << <<"A","l","p","h","a">>, <<"I","n","v">> >>
HeaderRow == << <<"I","t","e","m">>, <<"N","o","t","e">> >>

DataRows == {RowA, RowB, RowC, RowD, RowE}

RECURSIVE SeqsUpTo(_, _)
\* the sequences over S of length 0..n
SeqsUpTo(S, n) ==
    IF n = 0 THEN {<<>>}
    ELSE LET shorter == SeqsUpTo(S, n - 1)
         IN  shorter \cup {<<x>> \o t : x \in S, t \in {u \in shorter : Len(u) = n - 1}}

\* the tables of 1..MaxRows data rows
Tables == {t \in SeqsUpTo(DataRows, MaxRows) : Len(t) >= 1}

T_empty == <<>>
T_inv == <<"i","n","v">>
T_INV == <<"I","N","V">>
T_Beta == <<"B","e","t","a">>
T_Alpha == <<"A","l","p","h","a">>
T_Ndot == <<"N",".">>
T_tstar == <<"t","*">>
T_paren == <<"(">>
T_bracket == <<"[">>

\* the search terms tried on the matchers
Terms == {T_empty, T_inv, T_INV, T_Beta, T_Ndot, T_tstar, T_paren, T_bracket}

(***************************************************************************)
(* test1.py: the Streamlit application.  Every user interaction runs the   *)
(* whole script again; an action below is the interaction together with    *)
(* the script run (and the st.rerun()) it causes.                          *)
(***************************************************************************)
FileNames == {"a.xlsx", "b.xlsx"}

\* the active sheet of each workbook the user can upload
FileSheet(name) ==
    IF name = "a.xlsx" THEN <<HeaderRow, RowA, RowC, RowE, RowD>>
    ELSE <<HeaderRow, RowE, RowA>>

\* the texts the user types into the search box
SearchTexts == {T_empty, T_INV, T_Beta, T_Alpha, T_paren}

NoneDf == [is_none |-> TRUE, rows |-> <<>>]
Df(rows) == [is_none |-> FALSE, rows |-> rows]

\* session state initialisation
InitialSessionState ==
    [df_original |-> NoneDf, deletion_queue |-> {}, current_matches |-> <<>>]

NoData == [present |-> FALSE, sheet |-> <<>>]
Data(sheet) == [present |-> TRUE, sheet |-> sheet]

\* "Only load dataframe once"
LoadStep(ss, file) ==
    IF ss.df_original.is_none
    THEN [ss EXCEPT !.df_original = Df(read_excel(FileSheet(file)))]
    ELSE ss

\* the search of the current run raises (the script run stops there)
SearchRaises(ss, text) ==
    text # <<>> /\ ~get_rows_to_delete_logic(ss.df_original.rows, text).ok

\* "Run search immediately": current_matches from the text box
SearchStep(ss, text) ==
    IF text # <<>>
    THEN LET found_indices == get_rows_to_delete_logic(ss.df_original.rows, text)
         IN  IF found_indices.ok
             THEN [ss EXCEPT !.current_matches = found_indices.value]
             ELSE ss
    ELSE [ss EXCEPT !.current_matches = <<>>]

\* the script up to the buttons: load once, then search
RunToButtons(ss, file, text) == SearchStep(LoadStep(ss, file), text)

\* faulty variant: the run a new search text causes starts a new queue
SearchRunResetsQueue(ss, file, text) ==
    [RunToButtons(ss, file, text) EXCEPT !.deletion_queue = {}]

\* the script run a changed search text causes: nothing but the run to the buttons
SearchRun(ss, file, text) == RunToButtons(ss, file, text)

\* faulty variant: the queue is replaced by the matches instead of updated
QueueUpdateReplaces(deletion_queue, current_matches) == Range(current_matches)

\* deletion_queue.update(current_matches)
QueueUpdate(deletion_queue, current_matches) ==
    deletion_queue \cup Range(current_matches)

\* faulty variant: the row number is translated with the wrong offset
QueueRescueOffByOne(deletion_queue, row_to_rescue) ==
    LET idx_to_remove == row_to_rescue - 1
    IN  IF idx_to_remove \in deletion_queue
        THEN deletion_queue \ {idx_to_remove}
        ELSE deletion_queue

\* "Rescue Selected": idx_to_remove = row_to_rescue - 2, removed if queued
QueueRescue(deletion_queue, row_to_rescue) ==
    LET idx_to_remove == TableIndex(row_to_rescue)
    IN  IF idx_to_remove \in deletion_queue
        THEN deletion_queue \ {idx_to_remove}
        ELSE deletion_queue

\* "Clear Entire Queue"
QueueClear(deletion_queue) == {}

\* the options of the rescue selectbox
RescueOptions(deletion_queue) == {ExcelRow(i) : i \in deletion_queue}

Interaction(op, row) == [op |-> op, row |-> row]

NoQueue == {-1}

StreamlitInit ==
    /\ uploaded_file = "none"
    /\ search_text = <<>>
    /\ session_state = InitialSessionState
    /\ page_ok = TRUE
    /\ rescue_box = 0
    /\ processed_data = NoData
    /\ last = Interaction("start", 0)
    /\ q_pre_add = NoQueue

StreamlitIdle == UNCHANGED <<uploaded_file, search_text, session_state, page_ok,
                             rescue_box, processed_data, last, q_pre_add>>

OthersIdleForStreamlit == UNCHANGED <<program, cli, disk, api, mt, rm>>

\* the page shows its buttons: a file is uploaded and the last run did not stop early
ButtonsShown == program = "streamlit" /\ uploaded_file # "none" /\ page_ok

\* the rescue selectbox is shown: the buttons are, and the queue is not empty
BoxShown == ButtonsShown /\ session_state.deletion_queue # {}

\* the first option of the selectbox (its default, index 0)
FirstOption(options) == CHOOSE r \in options : \A o \in options : r <= o

\* the values the selectbox can show in a run that draws it with new_options:
\* none when it is not drawn (empty queue); the value it showed when it was
\* drawn in the run before with the same options; otherwise the widget is
\* either taken for a new one (first option) or keeps a value still on offer
RescueBoxValues(old, shown, old_options, new_options) ==
    IF new_options = {} THEN {0}
    ELSE IF shown /\ old_options = new_options /\ old \in new_options THEN {old}
    ELSE {FirstOption(new_options)} \cup ({old} \cap new_options)

\* the selectbox after a script run that ends with file, ss and ok: a run
\* without a file draws no widget and drops its value; a run stopped by an
\* exception leaves the widget state as it is
RescueBoxAfter(file, ss, ok) ==
    IF file = "none" THEN rescue_box' = 0
    ELSE IF ~ok THEN rescue_box' = rescue_box
    ELSE rescue_box' \in
             RescueBoxValues(rescue_box, BoxShown,
                             RescueOptions(session_state.deletion_queue),
                             RescueOptions(ss.deletion_queue))

\* the user puts a file into the uploader (the first one, or one replacing another)
Upload(f) ==
    /\ program = "streamlit"
    /\ f # uploaded_file
    /\ uploaded_file' = f
    /\ session_state' = RunToButtons(session_state, f, search_text)
    /\ page_ok' = ~SearchRaises(LoadStep(session_state, f), search_text)
    /\ RescueBoxAfter(f, session_state', page_ok')
    /\ processed_data' = NoData
    /\ last' = Interaction("Upload", 0)
    /\ q_pre_add' = NoQueue
    /\ UNCHANGED search_text
    /\ OthersIdleForStreamlit

\* the user removes the file: the script skips everything under "if uploaded_file",
\* and the text box, not drawn in that run, loses its value
RemoveFile ==
    /\ program = "streamlit"
    /\ uploaded_file # "none"
    /\ uploaded_file' = "none"
    /\ search_text' = <<>>
    /\ page_ok' = TRUE
    /\ RescueBoxAfter("none", session_state, TRUE)
    /\ processed_data' = NoData
    /\ last' = Interaction("RemoveFile", 0)
    /\ q_pre_add' = NoQueue
    /\ UNCHANGED session_state
    /\ OthersIdleForStreamlit

\* the user changes (or clears) the search text
Search(t) ==
    /\ program = "streamlit"
    /\ uploaded_file # "none"
    /\ t # search_text
    /\ search_text' = t
    /\ session_state' = SearchRun(session_state, uploaded_file, t)
    /\ page_ok' = ~SearchRaises(session_state, t)
    /\ RescueBoxAfter(uploaded_file, session_state', page_ok')
    /\ processed_data' = NoData
    /\ last' = Interaction("Search", 0)
    /\ q_pre_add' = NoQueue
    /\ UNCHANGED uploaded_file
    /\ OthersIdleForStreamlit

\* "Add n Rows to Deletion Queue": update the queue, empty current_matches, st.rerun()
Add ==
    /\ ButtonsShown
    /\ Len(session_state.current_matches) > 0
    /\ LET ss1 == RunToButtons(session_state, uploaded_file, search_text)
           ss2 == [ss1 EXCEPT
                     !.deletion_queue = QueueUpdate(@, ss1.current_matches),
                     !.current_matches = <<>>]
       IN  session_state' = RunToButtons(ss2, uploaded_file, search_text)
    /\ q_pre_add' = session_state.deletion_queue
    /\ RescueBoxAfter(uploaded_file, session_state', TRUE)
    /\ processed_data' = NoData
    /\ last' = Interaction("Add", 0)
    /\ UNCHANGED <<uploaded_file, search_text, page_ok>>
    /\ OthersIdleForStreamlit

\* the user picks another row in the selectbox: a script run in which no
\* button is pressed
SelectRescueRow(row) ==
    /\ BoxShown
    /\ row \in RescueOptions(session_state.deletion_queue)
    /\ row # rescue_box
    /\ session_state' = RunToButtons(session_state, uploaded_file, search_text)
    /\ rescue_box' = row
    /\ q_pre_add' = IF last.op \in {"Add", "Select"} THEN q_pre_add ELSE NoQueue
    /\ processed_data' = NoData
    /\ last' = Interaction("Select", row)
    /\ UNCHANGED <<uploaded_file, search_text, page_ok>>
    /\ OthersIdleForStreamlit

\* "Rescue Selected": row_to_rescue is the row the selectbox shows
Rescue ==
    /\ BoxShown
    /\ LET row_to_rescue == rescue_box
           ss1 == RunToButtons(session_state, uploaded_file, search_text)
           ss2 == [ss1 EXCEPT
                     !.deletion_queue = QueueRescue(@, row_to_rescue)]
       IN  /\ session_state' = RunToButtons(ss2, uploaded_file, search_text)
           /\ last' = Interaction("Rescue", row_to_rescue)
    /\ RescueBoxAfter(uploaded_file, session_state', TRUE)
    /\ q_pre_add' = IF last.op \in {"Add", "Select"} THEN q_pre_add ELSE NoQueue
    /\ processed_data' = NoData
    /\ UNCHANGED <<uploaded_file, search_text, page_ok>>
    /\ OthersIdleForStreamlit

\* "Clear Entire Queue"
Clear ==
    /\ ButtonsShown
    /\ session_state.deletion_queue # {}
    /\ LET ss1 == RunToButtons(session_state, uploaded_file, search_text)
           ss2 == [ss1 EXCEPT !.deletion_queue = QueueClear(@)]
       IN  session_state' = RunToButtons(ss2, uploaded_file, search_text)
    /\ q_pre_add' = NoQueue
    /\ RescueBoxAfter(uploaded_file, session_state', TRUE)
    /\ processed_data' = NoData
    /\ last' = Interaction("Clear", 0)
    /\ UNCHANGED <<uploaded_file, search_text, page_ok>>
    /\ OthersIdleForStreamlit

\* queue_list = sorted(list(st.session_state.deletion_queue))
QueueList(ss) == SortAsc(ss.deletion_queue)

\* faulty variant: the export uses the queue up
ExportRunConsumesQueue(ss, file, text) ==
    [RunToButtons(ss, file, text) EXCEPT !.deletion_queue = {}]

\* the session state after the run of the export button: the export assigns
\* nothing in st.session_state
ExportRun(ss, file, text) == RunToButtons(ss, file, text)

\* "Confirm Deletion & Download Excel"
Export ==
    /\ ButtonsShown
    /\ session_state.deletion_queue # {}
    /\ session_state' = ExportRun(session_state, uploaded_file, search_text)
    /\ processed_data' =
          Data(process_excel_with_formatting(FileSheet(uploaded_file),
                                             QueueList(session_state)))
    /\ q_pre_add' = NoQueue
    /\ last' = Interaction("Export", 0)
    /\ UNCHANGED <<uploaded_file, search_text, page_ok, rescue_box>>
    /\ OthersIdleForStreamlit

\* "Download Final Excel": the click runs the script again with no button
\* pressed, so nothing is processed and the download button is not drawn
Download ==
    /\ ButtonsShown
    /\ processed_data.present
    /\ session_state' = RunToButtons(session_state, uploaded_file, search_text)
    /\ processed_data' = NoData
    /\ q_pre_add' = NoQueue
    /\ last' = Interaction("Download", 0)
    /\ UNCHANGED <<uploaded_file, search_text, page_ok, rescue_box>>
    /\ OthersIdleForStreamlit

StreamlitNext ==
    \/ \E f \in FileNames : Upload(f)
    \/ RemoveFile
    \/ \E t \in SearchTexts : Search(t)
    \/ Add
    \/ \E r \in RescueOptions(session_state.deletion_queue) : SelectRescueRow(r)
    \/ Rescue
    \/ Clear
    \/ Export
    \/ Download

(***************************************************************************)
(* test.py: the command-line flow, main()                                  *)
(***************************************************************************)
Digits == <<"0","1","2","3","4","5","6","7","8","9">>

IsDigit(c) == \E d \in 1..10 : Digits[d] = c

DigitValue(c) == (CHOOSE d \in 1..10 : Digits[d] = c) - 1

RECURSIVE Strip(_)
\* str.strip() for blanks
Strip(s) ==
    IF s = <<>> THEN s
    ELSE IF Head(s) = " " THEN Strip(Tail(s))
    ELSE IF s[Len(s)] = " " THEN Strip(SubSeq(s, 1, Len(s) - 1))
    ELSE s

RECURSIVE Split(_, _)
\* str.split(sep) for a one-character separator
Split(s, sep) ==
    IF \E i \in 1..Len(s) : s[i] = sep
    THEN LET i == CHOOSE k \in 1..Len(s) :
                     s[k] = sep /\ \A m \in 1..(k - 1) : s[m] # sep
         IN  <<SubSeq(s, 1, i - 1)>> \o Split(SubSeq(s, i + 1, Len(s)), sep)
    ELSE <<s>>

\* int(x) accepts x: an optional sign and one or more decimal digits
IsIntText(x) ==
    LET body == IF x # <<>> /\ Head(x) \in {"-", "+"} THEN Tail(x) ELSE x
    IN  body # <<>> /\ \A i \in 1..Len(body) : IsDigit(body[i])

RECURSIVE DigitsValue(_)
DigitsValue(ds) ==
    IF ds = <<>> THEN 0
    ELSE 10 * DigitsValue(SubSeq(ds, 1, Len(ds) - 1)) + DigitValue(ds[Len(ds)])

\* int(x) for a text int() accepts
IntOf(x) ==
    IF Head(x) = "-" THEN 0 - DigitsValue(Tail(x))
    ELSE IF Head(x) = "+" THEN DigitsValue(Tail(x))
    ELSE DigitsValue(x)

\* [int(x.strip()) for x in rescue_input.split(',')] raises ValueError
RescueRaises(rescue_input) ==
    LET tokens == Split(rescue_input, ",")
    IN  \E k \in 1..Len(tokens) : ~IsIntText(Strip(tokens[k]))

\* rescue_rows = [int(x.strip()) for x in rescue_input.split(',')]
RescueRows(rescue_input) ==
    LET tokens == Split(rescue_input, ",")
    IN  [k \in 1..Len(tokens) |-> IntOf(Strip(tokens[k]))]

\* [i for i in final_indices if i not in rescue_indices]
Without(final_indices, rescue_indices) ==
    LET keep(i) == i \notin Range(rescue_indices)
    IN  SelectSeq(final_indices, keep)

\* the rescue step of main(): final_indices from delete_indices and the input line
FinalIndices(delete_indices, rescue_input) ==
    IF rescue_input = <<>> THEN delete_indices
    ELSE IF RescueRaises(rescue_input) THEN delete_indices
    ELSE LET rescue_rows == RescueRows(rescue_input)
             rescue_indices == [k \in 1..Len(rescue_rows) |-> TableIndex(rescue_rows[k])]
         IN  Without(delete_indices, rescue_indices)

\* a path is a text, as typed
PathA == <<"a", ".", "x", "l", "s", "x">>
PathB == <<"b", ".", "x", "l", "s", "x">>
PathNotes == <<"n", "o", "t", "e", "s", ".", "t", "x", "t">>
PathMissing == <<"m", "i", "s", "s", "i", "n", "g", ".", "x", "l", "s", "x">>

\* output_file = "cleaned_formatted_output.xlsx", relative to the working directory
OutputPath ==
    <<"c", "l", "e", "a", "n", "e", "d", "_", "f", "o", "r", "m", "a", "t", "t", "e", "d",
      "_", "o", "u", "t", "p", "u", "t", ".", "x", "l", "s", "x">>

\* a file of the working directory: a workbook with its active sheet, or a
\* file that is not a workbook
WorkbookFile(sheet) == [kind |-> "workbook", sheet |-> sheet]
TextFile == [kind |-> "text", sheet |-> <<>>]

\* the working directory before the first run: the two workbooks and a text
\* file, no output yet
DiskStart ==
    [p \in {PathA, PathB, PathNotes} |->
        IF p = PathA THEN WorkbookFile(FileSheet("a.xlsx"))
        ELSE IF p = PathB THEN WorkbookFile(FileSheet("b.xlsx"))
        ELSE TextFile]

\* wb.save(output_file): the file at the path is created or overwritten
Save(d, path, sheet) ==
    [p \in DOMAIN d \cup {path} |-> IF p = path THEN WorkbookFile(sheet) ELSE d[p]]

RECURSIVE StripQuotes(_)
\* str.strip('"')
StripQuotes(s) ==
    IF s = <<>> THEN s
    ELSE IF Head(s) = "\"" THEN StripQuotes(Tail(s))
    ELSE IF s[Len(s)] = "\"" THEN StripQuotes(SubSeq(s, 1, Len(s) - 1))
    ELSE s

\* input("Enter Excel file path: ").strip().strip('"')
PathOf(line) == StripQuotes(Strip(line))

\* the lines typed at the first prompt: plain paths, a path in quotes (as a
\* dragged file gives it), a path with blanks around it, a path that never
\* exists, a file that is not a workbook, and the output of an earlier run
CliPaths ==
    { PathA, PathB, <<"\"">> \o PathA \o <<"\"">>, <<" ">> \o PathB \o <<" ">>,
      PathMissing, PathNotes, OutputPath }

\* the keywords typed at the search prompt
CliTerms == {T_empty, T_inv, T_Beta, T_paren}

\* the lines typed at the "Rescue Rows:" prompt
RescueInputs ==
    { <<>>,
      <<"3">>,
      <<"2", ",", " ", "3">>,
      <<" ", "5", " ">>,
      <<"9">>,
      <<"3", ",", "x">>,
      <<"2", ",", "3", ",", "4", ",", "5">> }

\* the answers typed at the "Final Check" prompt
Answers == { <<"y","e","s">>, <<"Y","E","S">>, <<"n","o">>, <<"y">>, <<>> }

CliStart ==
    [pc |-> "input_path", file_path |-> <<>>, df |-> <<>>,
     delete_indices |-> <<>>, rescue_input |-> <<>>, final_indices |-> <<>>,
     answer |-> <<>>, confirm |-> <<>>, loaded_sheet |-> <<>>,
     saved_file |-> NoData, message |-> "none"]

OthersIdleForCli ==
    /\ UNCHANGED <<program, api, mt, rm>>
    /\ StreamlitIdle

\* file_path = input(...).strip().strip('"'); "File not found.", or
\* df = pd.read_excel(file_path), which raises for a file that is not a workbook
CliEnterPath(line) ==
    /\ program = "cli"
    /\ cli.pc = "input_path"
    /\ LET file_path == PathOf(line)
       IN  cli' = IF file_path \notin DOMAIN disk
                  THEN [cli EXCEPT !.pc = "exit", !.file_path = file_path,
                                   !.message = "File not found."]
                  ELSE IF disk[file_path].kind # "workbook"
                  THEN [cli EXCEPT !.pc = "exit", !.file_path = file_path,
                                   !.message = "read_excel raised"]
                  ELSE [cli EXCEPT !.pc = "input_search", !.file_path = file_path,
                                   !.loaded_sheet = disk[file_path].sheet,
                                   !.df = read_excel(disk[file_path].sheet)]
    /\ UNCHANGED disk
    /\ OthersIdleForCli

\* search_term = input(...); delete_indices = get_rows_to_delete(df, search_term)
CliEnterSearch(search_term) ==
    /\ program = "cli"
    /\ cli.pc = "input_search"
    /\ LET found == get_rows_to_delete(cli.df, search_term)
       IN  cli' = IF ~found.ok
                  THEN [cli EXCEPT !.pc = "exit", !.message = "re.error"]
                  ELSE IF found.value = <<>>
                  THEN [cli EXCEPT !.pc = "exit",
                                   !.message = "No rows found matching that term."]
                  ELSE [cli EXCEPT !.pc = "input_rescue",
                                   !.delete_indices = found.value]
    /\ UNCHANGED disk
    /\ OthersIdleForCli

\* rescue_input = input("Rescue Rows: "); final_indices
CliEnterRescue(rescue_input) ==
    /\ program = "cli"
    /\ cli.pc = "input_rescue"
    /\ LET final_indices == FinalIndices(cli.delete_indices, rescue_input)
       IN  cli' = IF final_indices = <<>>
                  THEN [cli EXCEPT !.pc = "exit", !.rescue_input = rescue_input,
                                   !.final_indices = final_indices,
                                   !.message = "No rows selected for deletion."]
                  ELSE [cli EXCEPT !.pc = "input_confirm",
                                   !.rescue_input = rescue_input,
                                   !.final_indices = final_indices]
    /\ UNCHANGED disk
    /\ OthersIdleForCli

\* faulty variant: the answer is compared as typed
ConfirmedAsTyped(answer) == answer = <<"y","e","s">>

\* confirm = input(...).lower(); if confirm == 'yes'
Confirmed(answer) == Lower(answer) = <<"y","e","s">>

\* confirm = input(...).lower(); on 'yes' the workbook at file_path is loaded,
\* its rows deleted and the result saved at OutputPath
CliEnterConfirm(answer) ==
    /\ program = "cli"
    /\ cli.pc = "input_confirm"
    /\ IF Confirmed(answer)
       THEN LET wb == delete_rows_preserve_formatting(disk[cli.file_path].sheet,
                                                     cli.final_indices)
            IN  /\ cli' = [cli EXCEPT !.pc = "exit", !.answer = answer,
                                      !.confirm = Lower(answer),
                                      !.saved_file = Data(wb),
                                      !.message = "DONE!"]
                /\ disk' = Save(disk, OutputPath, wb)
       ELSE /\ cli' = [cli EXCEPT !.pc = "exit", !.answer = answer,
                                  !.confirm = Lower(answer),
                                  !.message = "Operation cancelled."]
            /\ UNCHANGED disk
    /\ OthersIdleForCli

\* the program has ended and is started again in the same working directory
CliRunAgain ==
    /\ program = "cli"
    /\ cli.pc = "exit"
    /\ cli' = CliStart
    /\ UNCHANGED disk
    /\ OthersIdleForCli

CliNext ==
    \/ \E line \in CliPaths : CliEnterPath(line)
    \/ \E t \in CliTerms : CliEnterSearch(t)
    \/ \E line \in RescueInputs : CliEnterRescue(line)
    \/ \E answer \in Answers : CliEnterConfirm(answer)
    \/ CliRunAgain

(***************************************************************************)
(* src/main.py: the upload endpoint                                        *)
(***************************************************************************)
\* a blank cell of a workbook, read by pandas as NaN
NaN == <<"NaN">>

\* str.endswith
EndsWith(s, suffix) ==
    /\ Len(s) >= Len(suffix)
    /\ SubSeq(s, Len(s) - Len(suffix) + 1, Len(s)) = suffix

Csv == <<".", "c", "s", "v">>

\* the key of the assignment TEMP_STORAGE['file.filename'] = df
StorageKey == "file.filename"

\* TEMP_STORAGE = {}
EmptyDict == [k \in {} |-> <<>>]

\* d[key] = value on a dict
DictSet(d, key, value) ==
    [k \in DOMAIN d \cup {key} |-> IF k = key THEN value ELSE d[k]]

\* df.fillna(''): every NaN cell becomes the empty string
fillna(df) ==
    [i \in DOMAIN df |->
        [j \in DOMAIN df[i] |-> IF df[i][j] = NaN THEN <<>> ELSE df[i][j]]]

\* rows returned by df.head()
HeadRows == 5

\* the slice [:100] of the preview
PreviewLimit == 100

Min(a, b) == IF a < b THEN a ELSE b

\* df.head()
head(df) == SubSeq(df, 1, Min(HeadRows, Len(df)))

\* pd.read_excel(io.BytesIO(contents)): the table of a workbook, an error
\* for bytes that are not a workbook
read_excel_bytes(contents) ==
    IF contents.kind = "workbook"
    THEN Returned(read_excel(contents.sheet))
    ELSE Raised

\* faulty variant: a failed read empties TEMP_STORAGE
upload_file_drops_on_error(storage, filename, contents) ==
    IF ~EndsWith(filename, Csv)
    THEN [storage |-> storage, status |-> 400, loaded |-> NoneDf,
          detail |-> "Only CSV files are supported."]
    ELSE LET read == read_excel_bytes(contents)
         IN  IF ~read.ok
             THEN [storage |-> EmptyDict, status |-> 500, loaded |-> NoneDf,
                   detail |-> "Error processing file"]
             ELSE LET df == fillna(read.value)
                      data_preview == head(df)
                  IN  [storage |-> DictSet(storage, StorageKey, df),
                       status |-> 200, loaded |-> Df(df),
                       detail |->
                         [filename |-> filename,
                          columns |-> Head(contents.sheet),
                          total_rows |-> Len(data_preview),
                          preview_data |->
                            SubSeq(data_preview, 1,
                                   Min(PreviewLimit, Len(data_preview)))]]

\* upload_file(file): the new TEMP_STORAGE, the status of the response, the
\* table loaded from the upload (none on an error) and the response body
upload_file(storage, filename, contents) ==
    IF ~EndsWith(filename, Csv)
    THEN [storage |-> storage, status |-> 400, loaded |-> NoneDf,
          detail |-> "Only CSV files are supported."]
    ELSE LET read == read_excel_bytes(contents)
         IN  IF ~read.ok
             THEN [storage |-> storage, status |-> 500, loaded |-> NoneDf,
                   detail |-> "Error processing file"]
             ELSE LET df == fillna(read.value)
                      data_preview == head(df)
                  IN  [storage |-> DictSet(storage, StorageKey, df),
                       status |-> 200, loaded |-> Df(df),
                       detail |->
                         [filename |-> filename,
                          columns |-> Head(contents.sheet),
                          total_rows |-> Len(data_preview),
                          preview_data |->
                            SubSeq(data_preview, 1,
                                   Min(PreviewLimit, Len(data_preview)))]]

\* the clients that post to /upload
Clients == {"c1", "c2"}

\* the file names of the uploads
UploadNames ==
    { <<"a", ".", "c", "s", "v">>,
      <<"b", ".", "x", "l", "s", "x">>,
      <<"c", ".", "C", "S", "V">> }

\* a row with a blank cell
RowBlank == << <<"G","a","m","m","a">>, NaN >>

\* the bytes of the uploads: workbooks, and text that is not a workbook
UploadContents ==
    { [kind |-> "workbook", sheet |-> <<HeaderRow, RowA, RowB>>],
      [kind |-> "workbook", sheet |-> <<HeaderRow, RowE, RowBlank, RowC,
                                        RowD, RowA, RowB>>],
      [kind |-> "text", sheet |-> <<>>] }

NoRequest == [filename |-> <<>>, contents |-> [kind |-> "none", sheet |-> <<>>]]

NoResponse == [client |-> "none", status |-> 0, detail |-> "none"]

\* TEMP_STORAGE of the module; per client the request suspended at
\* "await file.read()"; history: per client the table loaded from its latest
\* successful upload, TEMP_STORAGE as it was when the last answered request
\* resumed, and the last response
ApiStart ==
    [TEMP_STORAGE |-> EmptyDict,
     pending |-> [c \in Clients |-> NoRequest],
     own |-> [c \in Clients |-> NoneDf],
     before |-> EmptyDict,
     response |-> NoResponse]

OthersIdleForApi ==
    /\ UNCHANGED <<program, cli, disk, mt, rm>>
    /\ StreamlitIdle

\* a client posts a file; the handler runs up to "await file.read()": a
\* name that does not end in '.csv' is answered with 400 at once, any
\* other request is suspended at the await
ApiPost(c, filename, contents) ==
    /\ program = "api"
    /\ api.pending[c] = NoRequest
    /\ IF ~EndsWith(filename, Csv)
       THEN LET r == upload_file(api.TEMP_STORAGE, filename, contents)
            IN  api' = [api EXCEPT
                          !.TEMP_STORAGE = r.storage,
                          !.before = api.TEMP_STORAGE,
                          !.response = [client |-> c, status |-> r.status,
                                        detail |-> r.detail]]
       ELSE api' = [api EXCEPT !.pending[c] =
                              [filename |-> filename, contents |-> contents]]
    /\ OthersIdleForApi

\* the handler of client c resumes and runs to its response
ApiRespond(c) ==
    /\ program = "api"
    /\ api.pending[c] # NoRequest
    /\ LET r == upload_file(api.TEMP_STORAGE, api.pending[c].filename,
                            api.pending[c].contents)
       IN  api' = [api EXCEPT
                     !.TEMP_STORAGE = r.storage,
                     !.pending[c] = NoRequest,
                     !.own[c] = IF r.status = 200 THEN r.loaded ELSE @,
                     !.before = api.TEMP_STORAGE,
                     !.response = [client |-> c, status |-> r.status,
                                   detail |-> r.detail]]
    /\ OthersIdleForApi

ApiNext ==
    \/ \E c \in Clients, f \in UploadNames, b \in UploadContents :
          ApiPost(c, f, b)
    \/ \E c \in Clients : ApiRespond(c)

(***************************************************************************)
(* The programs of the repository                                          *)
(***************************************************************************)
MatcherIdle == [pc |-> "idle", df |-> <<>>, search_term |-> <<>>,
                caseSensitive |-> FALSE, result |-> Returned(<<>>)]

RemoverIdle == [pc |-> "idle", sheet |-> <<>>, indices_to_delete |-> <<>>,
                excel_rows_to_delete |-> <<>>, ws |-> <<>>, deleted |-> <<>>,
                output |-> NoData]

Init ==
    /\ program \in {"streamlit", "cli", "api"}
    /\ StreamlitInit
    /\ cli = CliStart
    /\ disk = DiskStart
    /\ api = ApiStart
    /\ mt = MatcherIdle
    /\ rm = RemoverIdle

Next == StreamlitNext \/ CliNext \/ ApiNext

Spec == Init /\ [][Next]_vars

(***************************************************************************)
(* A call of the matcher on every table and term within the bounds         *)
(***************************************************************************)
InitMatcher ==
    /\ program = "matcher"
    /\ StreamlitInit
    /\ cli = CliStart
    /\ disk = DiskStart
    /\ api = ApiStart
    /\ rm = RemoverIdle
    /\ \E df \in Tables, t \in Terms, cs \in BOOLEAN :
          mt = [pc |-> "call", df |-> df, search_term |-> t,
                caseSensitive |-> cs, result |-> Returned(<<>>)]

MatcherCall ==
    /\ mt.pc = "call"
    /\ mt' = [mt EXCEPT !.pc = "done",
                        !.result = findMatches(mt.df, mt.search_term, mt.caseSensitive)]
    /\ UNCHANGED <<program, cli, disk, api, rm>>
    /\ StreamlitIdle

NextMatcher == MatcherCall

SpecMatcher == InitMatcher /\ [][NextMatcher]_vars

(***************************************************************************)
(* A call of the row remover on every sheet and every non-empty list of    *)
(* table indices of that sheet, one loop iteration per step                *)
(***************************************************************************)
\* a data row unlike every other: its first cell is "r" and its number
NumberedRow(k) == << <<"r", Digits[k + 1]>>, <<"x">> >>

\* the sheet of n distinct data rows under the header
NumberedSheet(n) == <<HeaderRow>> \o [k \in 1..n |-> NumberedRow(k)]

Sheets == {<<HeaderRow>> \o t : t \in Tables}
              \cup {NumberedSheet(n) : n \in 1..MaxSheetRows}

InitRemover ==
    /\ program = "remover"
    /\ StreamlitInit
    /\ cli = CliStart
    /\ disk = DiskStart
    /\ api = ApiStart
    /\ mt = MatcherIdle
    /\ \E sheet \in Sheets :
         \E Q \in (SUBSET (0..(Len(sheet) - 2))) \ {{}} :
            rm = [RemoverIdle EXCEPT !.pc = "call", !.sheet = sheet,
                                     !.indices_to_delete = SortAsc(Q)]

\* load_workbook; excel_rows_to_delete = [i + 2 ...]; sort(reverse=True)
RemoverLoad ==
    /\ rm.pc = "call"
    /\ rm' = [rm EXCEPT !.pc = "loop", !.ws = rm.sheet,
                        !.excel_rows_to_delete = DeletionOrder(rm.indices_to_delete)]
    /\ UNCHANGED <<program, cli, disk, api, mt>>
    /\ StreamlitIdle

\* one iteration of  for r in excel_rows_to_delete: ws.delete_rows(r)
RemoverDelete ==
    /\ rm.pc = "loop"
    /\ rm.excel_rows_to_delete # <<>>
    /\ rm' = [rm EXCEPT !.ws = delete_rows(rm.ws, Head(rm.excel_rows_to_delete)),
                        !.deleted = Append(rm.deleted, Head(rm.excel_rows_to_delete)),
                        !.excel_rows_to_delete = Tail(rm.excel_rows_to_delete)]
    /\ UNCHANGED <<program, cli, disk, api, mt>>
    /\ StreamlitIdle

\* wb.save(output)
RemoverSave ==
    /\ rm.pc = "loop"
    /\ rm.excel_rows_to_delete = <<>>
    /\ rm' = [rm EXCEPT !.pc = "done", !.output = Data(rm.ws)]
    /\ UNCHANGED <<program, cli, disk, api, mt>>
    /\ StreamlitIdle

NextRemover == RemoverLoad \/ RemoverDelete \/ RemoverSave

SpecRemover == InitRemover /\ [][NextRemover]_vars

(***************************************************************************)
(* Properties                                                              *)
(***************************************************************************)
RECURSIVE RowsNotIn(_, _, _)
\* the data rows of a table whose table index is not in Q, in their order;
\* i is the table index of the first row of data
RowsNotIn(data, i, Q) ==
    IF data = <<>> THEN <<>>
    ELSE (IF i \in Q THEN <<>> ELSE <<Head(data)>>) \o RowsNotIn(Tail(data), i + 1, Q)

\* the sheet an export of Q is to produce: the header, then the rows not in Q
SheetWithout(sheet, Q) == <<Head(sheet)>> \o RowsNotIn(Tail(sheet), 0, Q)

\* C1: for every table of n data rows and every queue Q of table indices within
\* 0..n-1, the export (each index i translated to row i+2, rows deleted in
\* descending order) yields the header row followed by exactly the original rows
\* whose index is not in Q, in their original order and without gaps; both
\* row removers do so.
C1_ExportKeepsExactlyTheUnqueuedRows ==
    rm.pc = "done" =>
        LET Q == Range(rm.indices_to_delete)
            expected == SheetWithout(rm.sheet, Q)
        IN  /\ rm.output.present
            /\ rm.output.sheet = expected
            /\ Len(rm.output.sheet) = Len(rm.sheet) - Cardinality(Q)
            /\ process_excel_with_formatting(rm.sheet, rm.indices_to_delete) = expected
            /\ delete_rows_preserve_formatting(rm.sheet, rm.indices_to_delete) = expected

\* C1 witness: an export of two non-adjacent rows of a sheet of distinct rows is done
C1_Witness ==
    /\ rm.pc = "done"
    /\ rm.sheet = NumberedSheet(MaxSheetRows)
    /\ rm.indices_to_delete = <<1, 3>>
    /\ rm.deleted = <<5, 3>>
    /\ rm.output.sheet = <<HeaderRow, NumberedRow(1), NumberedRow(3), NumberedRow(5)>>

\* the Excel row numbers an export of the current queue asks the remover to delete
RequestedRows == {ExcelRow(i) : i \in session_state.deletion_queue}

\* the requested row numbers outside the valid range of the uploaded file
InvalidRows == {r \in RequestedRows : r < 2 \/ r > Len(FileSheet(uploaded_file))}

\* C2: if any row number requested at export is outside the file's valid range
\* (below 2 or past the file's last row), the row removal fails: no output is
\* produced, no row number is silently skipped.
C2_OutOfRangeExportFails ==
    (last.op = "Export" /\ InvalidRows # {}) => ~processed_data.present

\* C3: at every export the table the queued indices were computed from is the
\* table loaded from the file being exported.
C3_ExportedTableIsOfExportedFile ==
    last.op = "Export" =>
        session_state.df_original = Df(read_excel(FileSheet(uploaded_file)))

\* C4: Add (merge) sets the queue to the union of its previous contents and the
\* match result, and a second Add of the same match result leaves the queue as
\* the first left it.
C4_MergeIsUnionAndIdempotent ==
    [][last'.op = "Add" =>
          /\ session_state'.deletion_queue =
                 session_state.deletion_queue \cup Range(session_state.current_matches)
          /\ session_state.deletion_queue \subseteq session_state'.deletion_queue
          /\ last.op = "Add" =>
                 /\ session_state'.current_matches = session_state.current_matches
                 /\ session_state'.deletion_queue = session_state.deletion_queue]_vars

\* C4 witness: an Add of matches that are all queued already, into a queue that
\* also holds other indices, has left the queue as it was
C4_Witness ==
    /\ last.op = "Add"
    /\ session_state.current_matches # <<>>
    /\ q_pre_add = session_state.deletion_queue
    /\ session_state.deletion_queue \ Range(session_state.current_matches) # {}

\* C5: a new search (the search text changed or cleared) never changes the
\* deletion queue; the queue changes only in an Add, a Rescue or a Clear.
C5_SearchLeavesQueue ==
    [][/\ last'.op = "Search" =>
              session_state'.deletion_queue = session_state.deletion_queue
       /\ session_state'.deletion_queue # session_state.deletion_queue =>
              last'.op \in {"Add", "Rescue", "Clear"}]_vars

\* C5 witness: a search has found rows that are not queued while the queue holds others
C5_Witness ==
    /\ last.op = "Search"
    /\ session_state.deletion_queue # {}
    /\ Range(session_state.current_matches) # {}
    /\ Range(session_state.current_matches) \cap session_state.deletion_queue = {}

\* the rescue inputs of one row number, with the number they mean
OneRowInputs == { [text |-> <<"3">>, row |-> 3],
                  [text |-> <<" ", "5", " ">>, row |-> 5],
                  [text |-> <<"9">>, row |-> 9] }

\* main() is past its rescue step
CliRescued ==
    /\ program = "cli"
    /\ \/ cli.pc = "input_confirm"
       \/ cli.pc = "exit" /\ cli.message \in {"No rows selected for deletion.",
                                              "DONE!", "Operation cancelled."}

\* the list without the index i, order kept
ListWithout(list, i) == LET keep(x) == x # i IN SelectSeq(list, keep)

\* C6: rescue(i) removes index i and nothing else (Streamlit queue and
\* command-line list alike); an Add of the single index i, not queued before,
\* followed by the rescue of i restores the queue; the rescue of an index that
\* is absent leaves the list unchanged and is no error.
C6_RescueRemovesOnlyThatIndex ==
    /\ [][last'.op = "Rescue" =>
             /\ TableIndex(last'.row) \in session_state.deletion_queue
             /\ session_state'.deletion_queue =
                    session_state.deletion_queue \ {TableIndex(last'.row)}]_vars
    /\ [](( /\ last.op = "Rescue"
            /\ q_pre_add # NoQueue
            /\ Range(session_state.current_matches) = {TableIndex(last.row)}
            /\ TableIndex(last.row) \notin q_pre_add )
          => session_state.deletion_queue = q_pre_add)
    /\ [](CliRescued =>
            \A e \in OneRowInputs :
                cli.rescue_input = e.text =>
                    /\ cli.final_indices = ListWithout(cli.delete_indices, e.row - 2)
                    /\ (e.row - 2) \notin Range(cli.delete_indices) =>
                           cli.final_indices = cli.delete_indices)

\* C6 witness: one index, not queued before, was added to a non-empty queue and
\* then rescued, and the queue is what it was before the Add
C6_Witness ==
    /\ last.op = "Rescue"
    /\ q_pre_add # NoQueue
    /\ q_pre_add # {}
    /\ Range(session_state.current_matches) = {TableIndex(last.row)}
    /\ TableIndex(last.row) \notin q_pre_add
    /\ session_state.deletion_queue = q_pre_add

\* some cell of the row contains "total" in any letter case
TotalInAnyCase(row) == \E c \in 1..Len(row) : InStr(TOTAL, Lower(row[c]))

\* the matcher call has returned a list
MatcherReturned == mt.pc = "done" /\ mt.result.ok

\* row i of the call's table passes the primary match of the call
PrimaryMatch(i) == RowMask(mt.df[i + 1], mt.search_term, mt.caseSensitive)

\* C7: for every matched index i, if i+1 is a valid table index and row i+1
\* contains "total" in any letter case, the result includes i+1, even when row
\* i+1 does not match the term, whatever the case-sensitivity of the primary match.
C7_TotalBelowMatchIncluded ==
    MatcherReturned =>
        \A i \in Range(mt.result.value) :
            (PrimaryMatch(i) /\ i + 1 < Len(mt.df) /\ TotalInAnyCase(mt.df[i + 2]))
                => (i + 1) \in Range(mt.result.value)

\* C7 witness: a case-sensitive call returned a row that does not match the term
\* and holds "TOTAL" in capitals, below a matched row
C7_Witness ==
    /\ MatcherReturned
    /\ mt.caseSensitive
    /\ \E i \in Range(mt.result.value) :
          /\ PrimaryMatch(i)
          /\ i + 1 < Len(mt.df)
          /\ mt.df[i + 2] = RowC
          /\ ~PrimaryMatch(i + 1)
          /\ (i + 1) \in Range(mt.result.value)

\* C8: the result holds no index other than a row that passes the primary match
\* or the row immediately after such a row whose content contains "total".
C8_OnlyMatchesAndTotalsBelow ==
    MatcherReturned =>
        \A i \in Range(mt.result.value) :
            \/ PrimaryMatch(i)
            \/ i >= 1 /\ PrimaryMatch(i - 1) /\ TotalInAnyCase(mt.df[i + 1])

\* C8 witness: a "total" row was returned only because it is below a match, and
\* the "total" row below it, which does not match either, was not returned
C8_Witness ==
    /\ MatcherReturned
    /\ \E i \in Range(mt.result.value) :
          /\ ~PrimaryMatch(i)
          /\ i + 1 < Len(mt.df)
          /\ TotalInAnyCase(mt.df[i + 2])
          /\ ~PrimaryMatch(i + 1)
          /\ (i + 1) \notin Range(mt.result.value)

\* C9: an empty search term matches no row, in every variant of the matcher.
C9_EmptyTermMatchesNothing ==
    (mt.pc = "done" /\ mt.search_term = <<>>) =>
        (mt.result.ok /\ mt.result.value = <<>>)

\* some cell of the row contains the term: as it is written when caseSensitive,
\* ignoring letter case otherwise
ContainsTerm(row, term, caseSensitive) ==
    \E c \in 1..Len(row) :
        IF caseSensitive THEN InStr(term, row[c])
        ELSE InStr(Lower(term), Lower(row[c]))

\* C10: for a non-empty term the matcher returns a list for, with case-insensitive matching a row matches when
\* some cell contains the term ignoring letter case, and with case-sensitive
\* matching only when some cell contains the term in the same letter case: every
\* row containing the term is returned, and every returned row contains the term
\* or is the "total" row below a returned row.
C10_FlagSelectsSubstringComparison ==
    (MatcherReturned /\ mt.search_term # <<>>) =>
        /\ \A i \in 0..(Len(mt.df) - 1) :
              ContainsTerm(mt.df[i + 1], mt.search_term, mt.caseSensitive)
                  => i \in Range(mt.result.value)
        /\ \A i \in Range(mt.result.value) :
              \/ ContainsTerm(mt.df[i + 1], mt.search_term, mt.caseSensitive)
              \/ i >= 1 /\ (i - 1) \in Range(mt.result.value)
                        /\ TotalInAnyCase(mt.df[i + 1])

\* C11: for every non-empty search term, also one holding '.', '*', '(' or
\* '[', the matcher returns a result instead of raising, and a row passes the
\* primary match exactly when some cell contains the term as a substring: the
\* rows containing the term are returned, and a returned row contains the term
\* or is the "total" row below a returned row.
C11_LiteralSubstringNeverFails ==
    (mt.pc = "done" /\ mt.search_term # <<>>) =>
        /\ mt.result.ok
        /\ \A i \in 0..(Len(mt.df) - 1) :
              ( \/ ContainsTerm(mt.df[i + 1], mt.search_term, mt.caseSensitive)
                \/ /\ i >= 1
                   /\ ContainsTerm(mt.df[i], mt.search_term, mt.caseSensitive)
                   /\ TotalInAnyCase(mt.df[i + 1]) )
              <=> i \in Range(mt.result.value)

\* the table the session holds
LoadedRows == session_state.df_original.rows

\* C12: index translation uses the one offset of 2 everywhere: a queued index i
\* is offered for rescue as row i + 2 and i + 2 translates back to i; the
\* rescue of row r takes index r - 2 out (Streamlit queue and command-line
\* list); an export deletes the physical rows i + 2 of the queued indices i.
C12_OffsetTwoEverywhere ==
    /\ \A i \in session_state.deletion_queue \cup Range(session_state.current_matches) :
          /\ ExcelRow(i) = i + 2
          /\ ExcelRow(i) \in RescueOptions({i})
          /\ TableIndex(ExcelRow(i)) = i
    /\ last.op = "Rescue" =>
          /\ TableIndex(last.row) = last.row - 2
          /\ (last.row - 2) \notin session_state.deletion_queue
    /\ last.op = "Export" =>
          processed_data.sheet =
              SheetWithout(FileSheet(uploaded_file), session_state.deletion_queue)
    /\ CliRescued =>
          \A e \in OneRowInputs :
              cli.rescue_input = e.text => (e.row - 2) \notin Range(cli.final_indices)

\* C12 witness: a row offered as i + 2 was rescued, index i is out of the queue
\* and other indices stay queued
C12_Witness ==
    /\ last.op = "Rescue"
    /\ session_state.deletion_queue # {}
    /\ (last.row - 2) \in 0..(Len(LoadedRows) - 1)
    /\ (last.row - 2) \notin session_state.deletion_queue

\* C13: an export leaves the deletion queue and the loaded table as they were,
\* and an export directly after an export produces the same file again.
C13_ExportReadsOnly ==
    [][last'.op = "Export" =>
          /\ session_state'.deletion_queue = session_state.deletion_queue
          /\ session_state'.df_original = session_state.df_original
          /\ last.op = "Export" => processed_data' = processed_data]_vars

\* C13 witness: an export has removed rows and the queue still holds them
C13_Witness ==
    /\ last.op = "Export"
    /\ processed_data.present
    /\ Cardinality(session_state.deletion_queue) >= 2
    /\ Len(processed_data.sheet) =
           Len(FileSheet(uploaded_file)) - Cardinality(session_state.deletion_queue)

\* C17: in the deletion loop the row numbers are processed in strictly
\* descending order, and when a row number r is about to be processed the
\* working sheet still holds, at row r and above it, the rows of the original
\* file.
C17_DescendingAndUnshifted ==
    rm.pc = "loop" =>
        /\ \A k \in 1..(Len(rm.deleted) - 1) : rm.deleted[k] > rm.deleted[k + 1]
        /\ \A k \in 1..(Len(rm.excel_rows_to_delete) - 1) :
              rm.excel_rows_to_delete[k] > rm.excel_rows_to_delete[k + 1]
        /\ (rm.deleted # <<>> /\ rm.excel_rows_to_delete # <<>>) =>
              rm.deleted[Len(rm.deleted)] > Head(rm.excel_rows_to_delete)
        /\ \A k \in 1..Len(rm.excel_rows_to_delete) :
              LET r == rm.excel_rows_to_delete[k]
              IN  /\ r \in 2..Len(rm.ws)
                  /\ \A p \in 1..r : rm.ws[p] = rm.sheet[p]

\* C17 witness: two rows of a sheet of distinct rows are deleted and a third
\* row number, lower than both, is about to be processed
C17_Witness ==
    /\ rm.pc = "loop"
    /\ rm.sheet = NumberedSheet(MaxSheetRows)
    /\ Len(rm.deleted) = 2
    /\ rm.excel_rows_to_delete # <<>>
    /\ rm.ws[Head(rm.excel_rows_to_delete)] = rm.sheet[Head(rm.excel_rows_to_delete)]
    /\ Len(rm.ws) = Len(rm.sheet) - 2

\* C18: while the session holds a table of n rows, every index in the deletion
\* queue and in the current matches lies in 0..n-1, so every row number handed
\* to the row remover lies in 2..n+1.
C18_IndicesWithinLoadedTable ==
    (program = "streamlit" /\ ~session_state.df_original.is_none) =>
        LET n == Len(LoadedRows)
        IN  /\ session_state.deletion_queue \subseteq 0..(n - 1)
            /\ Range(session_state.current_matches) \subseteq 0..(n - 1)
            /\ RequestedRows \subseteq 2..(n + 1)
            /\ Range(DeletionOrder(QueueList(session_state))) \subseteq 2..(n + 1)

\* C18 witness: an export was run with the first and the last row of the table queued
C18_Witness ==
    /\ last.op = "Export"
    /\ 0 \in session_state.deletion_queue
    /\ (Len(LoadedRows) - 1) \in session_state.deletion_queue
    /\ (Len(LoadedRows) + 1) \in RequestedRows

\* C14: after an export of the command-line flow has ended, successfully or
\* not, the workbook at the path the user named holds what it held when it
\* was loaded, whatever that path is.
C14_OriginalFileUnchanged ==
    (program = "cli" /\ cli.pc = "exit" /\ cli.file_path \in DOMAIN disk)
        => disk[cli.file_path].sheet = cli.loaded_sheet

\* C15: the table the store holds for a client is the table loaded from
\* that client's own latest successful upload, whatever the other client
\* uploaded in between.
C15_EachClientHoldsItsOwnTable ==
    program = "api" =>
        \A c \in Clients :
            api.own[c] # NoneDf =>
                /\ StorageKey \in DOMAIN api.TEMP_STORAGE
                /\ Df(api.TEMP_STORAGE[StorageKey]) = api.own[c]

\* C16: when the upload answers with an error status (400 for the extension,
\* 500 for a failure while the file is processed), TEMP_STORAGE is what it
\* was before the handler ran.
C16_FailedUploadInstallsNothing ==
    (program = "api" /\ api.response.status \in {400, 500})
        => api.TEMP_STORAGE = api.before

\* an upload was refused for its content after another upload had installed
\* a table
C16_Witness ==
    /\ program = "api"
    /\ api.response.status = 500
    /\ StorageKey \in DOMAIN api.TEMP_STORAGE

\* the rescue lines, with the rows they name when every token between the
\* commas is an integer
RescueLines ==
    { [line |-> <<>>, integers |-> FALSE, rows |-> {}],
      [line |-> <<"3">>, integers |-> TRUE, rows |-> {3}],
      [line |-> <<"2", ",", " ", "3">>, integers |-> TRUE, rows |-> {2, 3}],
      [line |-> <<" ", "5", " ">>, integers |-> TRUE, rows |-> {5}],
      [line |-> <<"9">>, integers |-> TRUE, rows |-> {9}],
      [line |-> <<"3", ",", "x">>, integers |-> FALSE, rows |-> {}],
      [line |-> <<"2", ",", "3", ",", "4", ",", "5">>, integers |-> TRUE,
       rows |-> {2, 3, 4, 5}] }

\* the list sent to deletion, for the rescue line typed
ListSentToDeletion(e) ==
    /\ Range(cli.final_indices) \subseteq Range(cli.delete_indices)
    /\ IF e.integers
       THEN cli.final_indices =
                SelectSeq(cli.delete_indices, LAMBDA i : (i + 2) \notin e.rows)
       ELSE cli.final_indices = cli.delete_indices

\* the claim as stated: deletion requires the answer 'yes' as typed
C19_DeletionOnlyOnExactlyYes ==
    (program = "cli" /\ CliRescued) =>
        /\ \A e \in RescueLines :
               cli.rescue_input = e.line => ListSentToDeletion(e)
        /\ cli.saved_file.present =>
               (cli.answer = <<"y","e","s">> /\ cli.final_indices # <<>>)

\* C19 (amended): the list sent to deletion is a subset of the match result:
\* the match result minus the indices r-2 when every token of the rescue line
\* is an integer r, the full match result when a token is not an integer; the
\* deletion is performed exactly when the list is not empty and the answer at
\* the final prompt is 'yes' in any letter case.
C19_DeletionOnlyOnYesInAnyCase ==
    (program = "cli" /\ CliRescued) =>
        /\ \A e \in RescueLines :
               cli.rescue_input = e.line => ListSentToDeletion(e)
        /\ cli.saved_file.present =>
               (cli.answer \in {<<"y","e","s">>, <<"Y","E","S">>}
                   /\ cli.final_indices # <<>>)
        /\ (cli.pc = "exit" /\ cli.final_indices # <<>>
               /\ cli.answer \in {<<"y","e","s">>, <<"Y","E","S">>})
              => cli.saved_file.present

\* a row was rescued and the rest deleted after the answer 'YES'
C19_Witness ==
    /\ program = "cli"
    /\ CliRescued
    /\ cli.answer = <<"Y","E","S">>
    /\ cli.saved_file.present
    /\ cli.final_indices # cli.delete_indices

====
